---- MODULE Spec2Model ----
(***************************************************************************)
(* Model of truffles.  First the game router (gameRouter in               *)
(* src/web/src/lib/auth/useAuth.tsx, lines 111-340); the scene editor's    *)
(* type menus and the auth provider follow it.                            *)
(* The database holds Pack rows (never written by the router) and Game     *)
(* rows.  Every procedure except create is "load the row with              *)
(* findGameOrThrow, compute the new state blob from the loaded row, write  *)
(* it back with prisma.game.update"; the load and the write are separate   *)
(* awaits, so calls of different requests interleave between the two.      *)
(***************************************************************************)
EXTENDS Integers, Sequences, FiniteSets, Bags, TLC

VARIABLES packs, games, calls, reply, now, sceneLog, nextScenes, ncalls,
          visibleQATypeMenu, supabase, auth, homeStore, handled

\* the state of the web client: the scene editor's menu, the identity service
\* as the client sees it, the auth provider, the home store, and the session
\* the auth provider handled last
clientVars == <<visibleQATypeMenu, supabase, auth, homeStore, handled>>

vars == <<packs, games, calls, reply, now, sceneLog, nextScenes, ncalls, clientVars>>

----------------------------------------------------------------------------
(* Bounds of the model *)

\* Date.now() runs over 0..MaxTime
MaxTime == 1
\* the number of procedure calls made in a run
MaxCalls == 4

----------------------------------------------------------------------------
(* Data *)

\* ids the id generator can return, and ids a client can ask for
NewIds == {"g1"}
GameIds == {"g1"}
PackIds == {"p0", "p1"}

PlayerIds == {"u1", "u2"}
\* the player counts a client sends and the game lengths a pack can have
NumPlayers == 1..Cardinality(PlayerIds)
GameLengths == {0, 1, 3}
Times == 0..MaxTime
Contents == {"a", "b"}

playerNameOf(id) == IF id = "u1" THEN "ann" ELSE "bob"

Null == [null |-> TRUE]

\* Scene rows with their SceneAnswer rows, as the pack query includes them
SceneA ==
  [id |-> "s1", packId |-> "p1", questionDescription |-> "d1", question |-> "q1",
   questionType |-> "text", answerType |-> "multiText",
   answers |-> << [id |-> "a1", sceneId |-> "s1", content |-> "a", isCorrect |-> TRUE],
                  [id |-> "a2", sceneId |-> "s1", content |-> "b", isCorrect |-> FALSE] >>]

SceneB ==
  [id |-> "s2", packId |-> "p1", questionDescription |-> "d2", question |-> "q2",
   questionType |-> "image", answerType |-> "multiText",
   answers |-> << [id |-> "a3", sceneId |-> "s2", content |-> "a", isCorrect |-> FALSE],
                  [id |-> "a4", sceneId |-> "s2", content |-> "b", isCorrect |-> TRUE] >>]

PackScenes == <<SceneA, SceneB>>

----------------------------------------------------------------------------
(* Pure helpers *)

Range(s) == {s[i] : i \in DOMAIN s}

MinOf(a, b) == IF a < b THEN a ELSE b
MaxOf(a, b) == IF a > b THEN a ELSE b

\* JavaScript object spread {...r, ...s}: the fields of s override those of r
Spread(r, s) ==
  [f \in (DOMAIN r) \cup (DOMAIN s) |-> IF f \in DOMAIN s THEN s[f] ELSE r[f]]

convertScene(scene) ==
  [questionDescription |-> scene.questionDescription,
   question |-> scene.question,
   questionType |-> scene.questionType,
   answerType |-> scene.answerType,
   sceneAnswers |-> [i \in DOMAIN scene.answers |->
                       [id |-> scene.answers[i].id,
                        content |-> scene.answers[i].content,
                        isCorrect |-> scene.answers[i].isCorrect]]]

\* faulty variant of sampleSize: the same element may be drawn twice
sampleWithRepeats(collection, n) ==
  LET k == MinOf(MaxOf(n, 0), Len(collection))
  IN  {[i \in 1..k |-> collection[f[i]]] : f \in [1..k -> DOMAIN collection]}

\* lodash sampleSize(collection, n): n clamped to 0..length, then that many
\* elements taken at pairwise different positions, in any order
sampleSize(collection, n) ==
  LET k == MinOf(MaxOf(n, 0), Len(collection))
      picks == {f \in [1..k -> DOMAIN collection] :
                  \A i, j \in 1..k : i # j => f[i] # f[j]}
  IN  {[i \in 1..k |-> collection[f[i]]] : f \in picks}

\* Array.prototype.find: the first element satisfying the test, or Null
RECURSIVE findFrom(_, _)
findFrom(s, i) ==
  IF i > Len(s) THEN Null
  ELSE IF s[i].isCorrect THEN s[i]
  ELSE findFrom(s, i + 1)

findCorrect(sceneAnswers) == findFrom(sceneAnswers, 1)

\* gameUtils.compareAnswer (exact match of the two contents)
compareAnswer(submitted, correct) == submitted = correct

\* gameUtils.calculateScore: nothing for a wrong answer, otherwise a score
\* that decays with the time elapsed since the scene started
calculateScore(isCorrect, startTime, endTime, duration) ==
  IF isCorrect THEN MaxOf(duration - (endTime - startTime), 0) ELSE 0

\* faulty variant of mergeScore: the new score overwrites the old one
mergeScoreOverwrite(oldEntry, newEntry) ==
  Spread(newEntry, [prevScore |-> oldEntry.score])

\* the merge callback submitAnswer hands to upsert
mergeScore(oldEntry, newEntry) ==
  Spread(newEntry, [prevScore |-> oldEntry.score,
                    score |-> oldEntry.score + newEntry.score])

\* gameUtils.upsert(array, element, "playerId", merge): the entry with the
\* element's key is replaced by merge(old, element); without one the element
\* is appended
upsert(array, element) ==
  IF \E i \in DOMAIN array : array[i].playerId = element.playerId
  THEN LET i == CHOOSE j \in DOMAIN array :
                  /\ array[j].playerId = element.playerId
                  /\ \A m \in 1..(j - 1) : array[m].playerId # element.playerId
       IN  [array EXCEPT ![i] = mergeScore(array[i], element)]
  ELSE Append(array, element)

----------------------------------------------------------------------------
(* The game router *)

\* duration of a scene in seconds (create and nextScene)
Duration == 45

NotFound == "BAD_REQUEST: Game not found"
InvalidPack == "BAD_REQUEST: Invalid packId."
Crash == "INTERNAL_SERVER_ERROR"

\* faulty variant of At: the index taken as one based
AtOneBased(array, i) == IF i \in DOMAIN array THEN array[i] ELSE Null

\* JavaScript array[i], zero based: Null (undefined) outside the array
At(array, i) == IF (i + 1) \in DOMAIN array THEN array[i + 1] ELSE Null

\* faulty variant of gameMissing: a finished game is found when it was started
gameMissingUnstarted(game) == game = Null \/ (game.isFinished /\ ~game.isStarted)

\* faulty variant of gameMissing: finished games are still found
gameMissingOnlyNull(game) == game = Null

\* findGameOrThrow: does the lookup throw on this row ?
gameMissing(game) == game = Null \/ game.isFinished

\* create: the first state blob of a game over the sampled scenes
createState(scenes, t) ==
  Spread([currentStep |-> 0,
          currentScene |-> 0,
          totalScenes |-> Len(scenes),
          playerScores |-> <<>>,
          submissions |-> <<>>,
          duration |-> Duration,
          startTime |-> t],
         convertScene(scenes[1]))

\* create: the row prisma.game.create inserts (isStarted and isFinished take
\* the column defaults)
createRow(id, packId, scenes, t) ==
  [id |-> id,
   packId |-> packId,
   state |-> createState(scenes, t),
   gameScenes |-> [i \in DOMAIN scenes |-> convertScene(scenes[i])],
   isStarted |-> FALSE,
   isFinished |-> FALSE]

\* faulty variant of startData: the submissions are cleared
startDataClearing(game, t) ==
  [isStarted |-> TRUE,
   state |-> Spread(game.state,
                    [currentStep |-> 1, startTime |-> t, submissions |-> <<>>])]

\* start: the columns written
startData(game, t) ==
  [isStarted |-> TRUE,
   state |-> Spread(game.state, [currentStep |-> 1, startTime |-> t])]

\* faulty variant of nextStepData: a step is skipped
nextStepDataSkipping(game) ==
  [state |-> Spread(game.state, [currentStep |-> game.state.currentStep + 2])]

\* faulty variant of nextStepData: the step stops at the reveal step
nextStepDataCapped(game) ==
  [state |-> Spread(game.state,
                    [currentStep |-> MinOf(game.state.currentStep + 1, 2)])]

\* nextStep: the columns written
nextStepData(game) ==
  [state |-> Spread(game.state, [currentStep |-> game.state.currentStep + 1])]

\* faulty variant of nextSceneData: the fields of the next scene are not copied
nextSceneDataUnflattened(game, t) ==
  LET gameState == game.state
      nextScene == gameState.currentScene + 1
      scene == At(game.gameScenes, nextScene)
  IN  IF scene = Null
      THEN [state |-> Spread(gameState, [currentStep |-> 0]),
            isFinished |-> TRUE]
      ELSE [state |-> Spread(gameState,
                             [currentStep |-> 1,
                              currentScene |-> nextScene,
                              submissions |-> <<>>,
                              duration |-> Duration,
                              startTime |-> t])]

\* faulty variant of nextSceneData: the game finishes when it leaves the scene
\* before the last
nextSceneDataEarly(game, t) ==
  LET gameState == game.state
      nextScene == gameState.currentScene + 1
      scene == At(game.gameScenes, nextScene + 1)
  IN  IF scene = Null
      THEN [state |-> Spread(gameState, [currentStep |-> 0]),
            isFinished |-> TRUE]
      ELSE [state |-> Spread(Spread(gameState,
                                    [currentStep |-> 1,
                                     currentScene |-> nextScene,
                                     submissions |-> <<>>,
                                     duration |-> Duration,
                                     startTime |-> t]),
                             At(game.gameScenes, nextScene))]

\* faulty variant of nextSceneData: after the last scene the game starts over
nextSceneDataRestarting(game, t) ==
  LET gameState == game.state
      nextScene == gameState.currentScene + 1
      scene == At(game.gameScenes, nextScene)
  IN  IF scene = Null
      THEN [state |-> Spread(gameState, [currentStep |-> 0, currentScene |-> 0]),
            isFinished |-> TRUE]
      ELSE [state |-> Spread(Spread(gameState,
                                    [currentStep |-> 1,
                                     currentScene |-> nextScene,
                                     submissions |-> <<>>,
                                     duration |-> Duration,
                                     startTime |-> t]),
                             scene)]

\* faulty variant of nextSceneData: the last scene is left as well
nextSceneDataPastEnd(game, t) ==
  LET gameState == game.state
      nextScene == gameState.currentScene + 1
      scene == At(game.gameScenes, nextScene)
  IN  IF scene = Null
      THEN [state |-> Spread(gameState,
                             [currentStep |-> 0, currentScene |-> nextScene]),
            isFinished |-> TRUE]
      ELSE [state |-> Spread(Spread(gameState,
                                    [currentStep |-> 1,
                                     currentScene |-> nextScene,
                                     submissions |-> <<>>,
                                     duration |-> Duration,
                                     startTime |-> t]),
                             scene)]

\* faulty variant of nextSceneData: the submissions of the last scene are kept
nextSceneDataKeeping(game, t) ==
  LET gameState == game.state
      nextScene == gameState.currentScene + 1
      scene == At(game.gameScenes, nextScene)
  IN  IF scene = Null
      THEN [state |-> Spread(gameState, [currentStep |-> 0]),
            isFinished |-> TRUE]
      ELSE [state |-> Spread(Spread(gameState,
                                    [currentStep |-> 1,
                                     currentScene |-> nextScene,
                                     duration |-> Duration,
                                     startTime |-> t]),
                             scene)]

\* nextScene: the columns written
nextSceneData(game, t) ==
  LET gameState == game.state
      nextScene == gameState.currentScene + 1
      scene == At(game.gameScenes, nextScene)
  IN  IF scene = Null
      THEN [state |-> Spread(gameState, [currentStep |-> 0]),
            isFinished |-> TRUE]
      ELSE [state |-> Spread(Spread(gameState,
                                    [currentStep |-> 1,
                                     currentScene |-> nextScene,
                                     submissions |-> <<>>,
                                     duration |-> Duration,
                                     startTime |-> t]),
                             scene)]

\* submitAnswer reads correctAnswer.content: a TypeError when no answer of
\* the active scene is marked correct
submitAnswerThrows(game) == findCorrect(game.state.sceneAnswers) = Null

\* faulty variant of stepAfterSubmit: one submission too many is awaited
stepAfterSubmitLate(numSubmissions, numPlayers) ==
  IF numSubmissions > numPlayers THEN 2 ELSE 1

\* submitAnswer: the step written, from the number of submissions
stepAfterSubmit(numSubmissions, numPlayers) ==
  IF numSubmissions >= numPlayers THEN 2 ELSE 1

\* faulty variant of submitAnswerData: the step is decided before the new submission
\* is counted
submitAnswerDataUncounted(game, input, t) ==
  LET gameState == game.state
      correctAnswer == findCorrect(gameState.sceneAnswers)
      submission ==
        Spread(input.submission,
               [isCorrect |-> compareAnswer(input.submission.content,
                                            correctAnswer.content)])
      updatedSubmissions == Append(gameState.submissions, submission)
      playerScore ==
        [playerId |-> input.submission.playerId,
         playerName |-> input.submission.playerName,
         score |-> calculateScore(submission.isCorrect, gameState.startTime,
                                  t, gameState.duration),
         prevScore |-> 0]
      updatedPlayerScores == upsert(gameState.playerScores, playerScore)
  IN  [state |-> Spread(gameState,
                        [currentStep |-> stepAfterSubmit(Len(gameState.submissions),
                                                         input.numPlayers),
                         submissions |-> updatedSubmissions,
                         playerScores |-> updatedPlayerScores])]

\* submitAnswer: the columns written
submitAnswerData(game, input, t) ==
  LET gameState == game.state
      correctAnswer == findCorrect(gameState.sceneAnswers)
      submission ==
        Spread(input.submission,
               [isCorrect |-> compareAnswer(input.submission.content,
                                            correctAnswer.content)])
      updatedSubmissions == Append(gameState.submissions, submission)
      playerScore ==
        [playerId |-> input.submission.playerId,
         playerName |-> input.submission.playerName,
         score |-> calculateScore(submission.isCorrect, gameState.startTime,
                                  t, gameState.duration),
         prevScore |-> 0]
      updatedPlayerScores == upsert(gameState.playerScores, playerScore)
  IN  [state |-> Spread(gameState,
                        [currentStep |-> stepAfterSubmit(Len(updatedSubmissions),
                                                         input.numPlayers),
                         submissions |-> updatedSubmissions,
                         playerScores |-> updatedPlayerScores])]

\* the columns a loaded call writes
dataOf(c) ==
  CASE c.op = "start" -> startData(c.game, c.t)
    [] c.op = "nextStep" -> nextStepData(c.game)
    [] c.op = "nextScene" -> nextSceneData(c.game, c.t)
    [] c.op = "submitAnswer" -> submitAnswerData(c.game, c.input, c.t)

----------------------------------------------------------------------------
(* Requests in flight: the calls that hold a loaded row and have not        *)
(* written yet.  Each remembers the row findGameOrThrow returned, its input  *)
(* and the Date.now() it read.                                               *)

\* at most one unanswered call per connected client
InFlightLimit == Cardinality(PlayerIds)

Inputs ==
  {[numPlayers |-> n,
    submission |-> [playerId |-> u, playerName |-> playerNameOf(u), content |-> c]] :
     n \in NumPlayers, u \in PlayerIds, c \in Contents}

NoInput == [none |-> TRUE]

Loaded(op, gameId, input, game, t) ==
  [op |-> op, gameId |-> gameId, input |-> input, game |-> game, t |-> t,
   stale |-> FALSE]

\* what the client of a finished call gets: "ok" or the error thrown
Reply(op, gameId, result) == [op |-> op, gameId |-> gameId, result |-> result]

\* does the procedure read the clock once it holds this row ?
readsClock(op, game) ==
  \/ op \in {"start", "submitAnswer"}
  \/ op = "nextScene" /\ At(game.gameScenes, game.state.currentScene + 1) # Null

----------------------------------------------------------------------------
(* History of a game: nextScenes counts the nextScene calls that have been    *)
(* answered "ok" since the game was created.                                 *)
(* History of the current scene of a game: which players' submitAnswer calls *)
(* were made and completed since the scene began (the last start or          *)
(* nextScene write), with which numPlayers, and whether they ran one at a    *)
(* time.  Dirty once anything else was called on the game.                   *)

Dirty == [dirty |-> TRUE]
FreshLog == [dirty |-> FALSE, done |-> {}, numPlayers |-> {}, serial |-> TRUE]

logCall(log, op, overlaps) ==
  IF log.dirty THEN log
  ELSE IF op # "submitAnswer" THEN Dirty
  ELSE [log EXCEPT !.serial = @ /\ ~overlaps]

logSubmitted(log, c) ==
  IF log.dirty THEN log
  ELSE IF c.stale \/ c.input.submission.playerId \in log.done THEN Dirty
  ELSE [log EXCEPT !.done = @ \cup {c.input.submission.playerId},
                   !.numPlayers = @ \cup {c.input.numPlayers}]

\* the calls loaded before a scene began are stale from then on
markStale(bag, gameId) ==
  LET mark(c) == IF c.gameId = gameId THEN [c EXCEPT !.stale = TRUE] ELSE c
      S == BagToSet(bag)
  IN  [d \in {mark(c) : c \in S} |->
         (IF d \in S THEN bag[d] ELSE 0)
         + (IF d.stale /\ [d EXCEPT !.stale = FALSE] \in S
            THEN bag[[d EXCEPT !.stale = FALSE]] ELSE 0)]

----------------------------------------------------------------------------
(* Actions *)

\* the auth provider before its effect has run, on a client without a stored
\* session
SignedOutClient ==
  /\ supabase = [session |-> Null, events |-> <<>>]
  /\ auth = [user |-> Null, loading |-> TRUE, subscribed |-> FALSE,
             getSession |-> "idle", data |-> Null, response |-> "none"]
  /\ homeStore = [playerId |-> "", playerName |-> "", accessToken |-> ""]
  /\ handled = [none |-> TRUE]

PackTables ==
  {[id \in PackIds |->
      IF id = "p1"
      THEN [id |-> "p1", gameLength |-> n, scenes |-> PackScenes]
      ELSE Null] : n \in GameLengths}

Init ==
  /\ packs \in PackTables
  /\ games = [g \in GameIds |-> Null]
  /\ calls = EmptyBag
  /\ reply = Null
  /\ now = 0
  /\ sceneLog = [g \in GameIds |-> Dirty]
  /\ nextScenes = [g \in GameIds |-> 0]
  /\ ncalls = 0
  /\ visibleQATypeMenu = "None"
  /\ SignedOutClient

\* a client may call: the run has calls left and a request slot is free
canCall ==
  /\ ncalls < MaxCalls
  /\ BagCardinality(calls) < InFlightLimit

\* Date.now() returns t: the clock never runs backwards, and moves by at most
\* one unit from one reading to the next
DateNow(t) ==
  /\ t \in now..MinOf(now + 1, MaxTime)
  /\ now' = t

\* get and check: findGameOrThrow and nothing else
Find(op, gameId) ==
  /\ reply' = Reply(op, gameId,
                   IF gameMissing(games[gameId]) THEN NotFound ELSE "ok")
  /\ ncalls' = ncalls + 1
  /\ UNCHANGED <<packs, games, calls, now, sceneLog, nextScenes, clientVars>>

Get(gameId) ==
  /\ canCall
  /\ Find("get", gameId)

Check(gameId) ==
  /\ canCall
  /\ Find("check", gameId)

\* create: an unknown pack is refused; an empty sample has no first scene and
\* convertScene(undefined) throws; an id already taken violates the key.
\* Time is measured from the creation of the game: the clock stands while
\* create runs.
Create(packId) ==
  /\ canCall
  /\ LET pack == packs[packId] IN
     IF pack = Null
     THEN /\ reply' = Reply("create", "", InvalidPack)
          /\ UNCHANGED <<games, sceneLog, nextScenes>>
     ELSE \E scenes \in sampleSize(pack.scenes, pack.gameLength), id \in NewIds :
            IF scenes = <<>> \/ games[id] # Null
            THEN /\ reply' = Reply("create", "", Crash)
                 /\ UNCHANGED <<games, sceneLog, nextScenes>>
            ELSE /\ games' = [games EXCEPT ![id] = createRow(id, packId, scenes, now)]
                 /\ reply' = Reply("create", id, "ok")
                 /\ sceneLog' = [sceneLog EXCEPT ![id] = Dirty]
                 /\ nextScenes' = [nextScenes EXCEPT ![id] = 0]
  /\ ncalls' = ncalls + 1
  /\ UNCHANGED <<packs, calls, now, clientVars>>

\* the first half of start, nextStep, nextScene and submitAnswer:
\* findGameOrThrow, then the new state is computed from the row it returned
Load(op, gameId, input, t) ==
  /\ LET game == games[gameId] IN
     IF gameMissing(game)
     THEN /\ t = now
          /\ reply' = Reply(op, gameId, NotFound)
          /\ UNCHANGED <<calls, sceneLog, now>>
     ELSE IF op = "submitAnswer" /\ submitAnswerThrows(game)
     THEN /\ t = now
          /\ reply' = Reply(op, gameId, Crash)
          /\ UNCHANGED <<calls, sceneLog, now>>
     ELSE /\ IF readsClock(op, game) THEN DateNow(t) ELSE t = now /\ UNCHANGED now
          /\ calls' = calls (+) SetToBag({Loaded(op, gameId, input, game, t)})
          /\ sceneLog' = [sceneLog EXCEPT ![gameId] =
                            logCall(@, op, \E c \in BagToSet(calls) : c.gameId = gameId)]
          /\ UNCHANGED reply
  /\ ncalls' = ncalls + 1
  /\ UNCHANGED <<packs, games, nextScenes, clientVars>>

StartLoad(gameId, t) ==
  /\ canCall
  /\ Load("start", gameId, NoInput, t)

NextStepLoad(gameId, t) ==
  /\ canCall
  /\ Load("nextStep", gameId, NoInput, t)

NextSceneLoad(gameId, t) ==
  /\ canCall
  /\ Load("nextScene", gameId, NoInput, t)

SubmitAnswerLoad(gameId, input, t) ==
  /\ canCall
  /\ Load("submitAnswer", gameId, input, t)

\* faulty variant of Persist: the whole loaded row is written back
PersistWholeRow(c, op) ==
  /\ BagIn(c, calls)
  /\ c.op = op
  /\ games' = [games EXCEPT ![c.gameId] = Spread(c.game, dataOf(c))]
  /\ reply' = Reply(op, c.gameId, "ok")
  /\ UNCHANGED <<packs, now, ncalls, clientVars>>

\* faulty variant of Persist: the new state is computed from the stored row, in one
\* step with the write
PersistAtomic(c, op) ==
  /\ BagIn(c, calls)
  /\ c.op = op
  /\ games' = [games EXCEPT ![c.gameId] = Spread(@, dataOf([c EXCEPT !.game = games[c.gameId]]))]
  /\ reply' = Reply(op, c.gameId, "ok")
  /\ UNCHANGED <<packs, now, ncalls, clientVars>>

\* the second half: prisma.game.update writes the computed columns
Persist(c, op) ==
  /\ BagIn(c, calls)
  /\ c.op = op
  /\ games' = [games EXCEPT ![c.gameId] = Spread(@, dataOf(c))]
  /\ reply' = Reply(op, c.gameId, "ok")
  /\ UNCHANGED <<packs, now, ncalls, clientVars>>

beginsScene(c) ==
  \/ c.op = "start"
  \/ c.op = "nextScene" /\ At(c.game.gameScenes, c.game.state.currentScene + 1) # Null

others(c) == calls (-) SetToBag({c})

StartPersist(c) ==
  /\ Persist(c, "start")
  /\ calls' = markStale(others(c), c.gameId)
  /\ sceneLog' = [sceneLog EXCEPT ![c.gameId] = FreshLog]
  /\ UNCHANGED nextScenes

NextStepPersist(c) ==
  /\ Persist(c, "nextStep")
  /\ calls' = others(c)
  /\ sceneLog' = [sceneLog EXCEPT ![c.gameId] = Dirty]
  /\ UNCHANGED nextScenes

NextScenePersist(c) ==
  /\ Persist(c, "nextScene")
  /\ nextScenes' = [nextScenes EXCEPT ![c.gameId] = @ + 1]
  /\ IF beginsScene(c)
     THEN /\ calls' = markStale(others(c), c.gameId)
          /\ sceneLog' = [sceneLog EXCEPT ![c.gameId] = FreshLog]
     ELSE /\ calls' = others(c)
          /\ sceneLog' = [sceneLog EXCEPT ![c.gameId] = Dirty]

SubmitAnswerPersist(c) ==
  /\ Persist(c, "submitAnswer")
  /\ calls' = others(c)
  /\ sceneLog' = [sceneLog EXCEPT ![c.gameId] = logSubmitted(@, c)]
  /\ UNCHANGED nextScenes

Next ==
  \/ \E gameId \in GameIds : Get(gameId)
  \/ \E gameId \in GameIds : Check(gameId)
  \/ \E packId \in PackIds : Create(packId)
  \/ \E gameId \in GameIds, t \in Times : StartLoad(gameId, t)
  \/ \E gameId \in GameIds, t \in Times : NextStepLoad(gameId, t)
  \/ \E gameId \in GameIds, t \in Times : NextSceneLoad(gameId, t)
  \/ \E gameId \in GameIds, input \in Inputs, t \in Times :
       SubmitAnswerLoad(gameId, input, t)
  \/ \E c \in BagToSet(calls) : StartPersist(c)
  \/ \E c \in BagToSet(calls) : NextStepPersist(c)
  \/ \E c \in BagToSet(calls) : NextScenePersist(c)
  \/ \E c \in BagToSet(calls) : SubmitAnswerPersist(c)

Spec == Init /\ [][Next]_vars

\* the calls run one at a time: no call is made while another holds a loaded
\* row
idle == calls = EmptyBag

SerialNext ==
  \/ \E gameId \in GameIds : idle /\ Get(gameId)
  \/ \E gameId \in GameIds : idle /\ Check(gameId)
  \/ \E packId \in PackIds : idle /\ Create(packId)
  \/ \E gameId \in GameIds, t \in Times : idle /\ StartLoad(gameId, t)
  \/ \E gameId \in GameIds, t \in Times : idle /\ NextStepLoad(gameId, t)
  \/ \E gameId \in GameIds, t \in Times : idle /\ NextSceneLoad(gameId, t)
  \/ \E gameId \in GameIds, input \in Inputs, t \in Times :
       idle /\ SubmitAnswerLoad(gameId, input, t)
  \/ \E c \in BagToSet(calls) : StartPersist(c)
  \/ \E c \in BagToSet(calls) : NextStepPersist(c)
  \/ \E c \in BagToSet(calls) : NextScenePersist(c)
  \/ \E c \in BagToSet(calls) : SubmitAnswerPersist(c)

SerialSpec == Init /\ [][SerialNext]_vars

----------------------------------------------------------------------------
(* The scene editor (src/unnamed/part_000): the menus that set the question  *)
(* type and the answer type of a scene of a pack.  The scene edited is the   *)
(* only scene of pack "p1"; games are created from the pack and answered     *)
(* while it is edited.                                                       *)

VisibleQATypeMenu == {"None", "Question", "Answer"}

\* gameUtils.QuestionTypeSlugs and gameUtils.AnswerTypeSlugs: the ids of the
\* types the menus offer
QuestionTypeSlugs == {"text", "image"}
AnswerTypeSlugs == {"text", "multiText"}

\* JavaScript false, as a menu button hands it to onSelectType
JsFalse == [false |-> TRUE]

defaultQuestionsMap(type) ==
  IF type = "text" THEN "Hello in there?" ELSE "/illustrations/pusheen.gif"

defaultAnswersMap(type) ==
  IF type = "multiText"
  THEN << [content |-> "", isCorrect |-> FALSE],
          [content |-> "", isCorrect |-> FALSE],
          [content |-> "", isCorrect |-> FALSE] >>
  ELSE <<>>

\* QuestionTypeMenu, a button's onClick: what it hands to onSelectType
questionTypeUpdate(currentType, value) ==
  IF currentType = value
  THEN JsFalse
  ELSE [questionType |-> [slug |-> value], question |-> defaultQuestionsMap(value)]

\* faulty variant of answerTypeUpdate: without a correct answer the list is
\* the default one
answerTypeUpdateNoFallback(currentType, sceneAnswers, value) ==
  LET correct == findCorrect(sceneAnswers)
  IN  IF currentType = value
      THEN JsFalse
      ELSE [answerType |-> [slug |-> value],
            sceneAnswers |-> (IF correct # Null THEN <<correct>> ELSE <<>>)
                             \o defaultAnswersMap(value)]

\* AnswerTypeMenu, a button's onClick: what it hands to onSelectType
answerTypeUpdate(currentType, sceneAnswers, value) ==
  LET correct == findCorrect(sceneAnswers)
  IN  IF currentType = value
      THEN JsFalse
      ELSE [answerType |-> [slug |-> value],
            sceneAnswers |-> << IF correct # Null
                                THEN correct
                                ELSE [content |-> "", isCorrect |-> TRUE] >>
                             \o defaultAnswersMap(value)]

\* useUpdateScene(scene).updateScene: the fields given replace those of the
\* scene; the answers given become the SceneAnswer rows of the scene, those
\* without an id as new rows
updateScene(scene, updatedScene) ==
  LET row(a) == [id |-> IF "id" \in DOMAIN a THEN a.id ELSE "new",
                 sceneId |-> scene.id,
                 content |-> a.content,
                 isCorrect |-> a.isCorrect]
  IN  [f \in DOMAIN scene |->
         IF f = "answers" /\ "sceneAnswers" \in DOMAIN updatedScene
         THEN [i \in DOMAIN updatedScene.sceneAnswers |-> row(updatedScene.sceneAnswers[i])]
         ELSE IF f \in {"questionType", "answerType"} /\ f \in DOMAIN updatedScene
         THEN updatedScene[f].slug
         ELSE IF f = "question" /\ f \in DOMAIN updatedScene
         THEN updatedScene[f]
         ELSE scene[f]]

\* the scene the editor shows
editedScene == packs["p1"].scenes[1]

\* the answer lists a scene can have when the editor opens it: at most one
\* answer marked correct
EditorAnswers ==
  {<<>>,
   << SceneA.answers[1], SceneA.answers[2] >>,
   << SceneA.answers[2], SceneA.answers[1] >>}

EditorPackTables ==
  {[id \in PackIds |->
      IF id = "p1"
      THEN [id |-> "p1", gameLength |-> 1,
            scenes |-> << [SceneA EXCEPT !.answers = answers] >>]
      ELSE Null] : answers \in EditorAnswers}

EditorInit ==
  /\ packs \in EditorPackTables
  /\ games = [g \in GameIds |-> Null]
  /\ calls = EmptyBag
  /\ reply = Null
  /\ now = 0
  /\ sceneLog = [g \in GameIds |-> Dirty]
  /\ nextScenes = [g \in GameIds |-> 0]
  /\ ncalls = 0
  /\ visibleQATypeMenu = "None"
  /\ SignedOutClient

gameVars == <<games, calls, reply, now, sceneLog, nextScenes>>

authVars == <<supabase, auth, homeStore, handled>>

\* the scene preview opens one of the two menus
ShowMenu(menu) ==
  /\ visibleQATypeMenu = "None"
  /\ visibleQATypeMenu' = menu
  /\ UNCHANGED <<packs, gameVars, ncalls, authVars>>

\* useOnClickOutside
ClickOutside ==
  /\ visibleQATypeMenu # "None"
  /\ visibleQATypeMenu' = "None"
  /\ UNCHANGED <<packs, gameVars, ncalls, authVars>>

\* SceneQATypeMenu.onSelectType: the menu closes, and updateScene, a call to
\* the server, is made unless the button handed over false
onSelectType(updatedScene) ==
  /\ visibleQATypeMenu' = "None"
  /\ IF updatedScene # JsFalse
     THEN /\ ncalls < MaxCalls
          /\ packs' = [packs EXCEPT !["p1"].scenes[1] = updateScene(@, updatedScene)]
          /\ ncalls' = ncalls + 1
     ELSE UNCHANGED <<packs, ncalls>>
  /\ UNCHANGED authVars

SelectQuestionType(value) ==
  /\ visibleQATypeMenu = "Question"
  /\ onSelectType(questionTypeUpdate(editedScene.questionType, value))
  /\ UNCHANGED gameVars

SelectAnswerType(value) ==
  /\ visibleQATypeMenu = "Answer"
  /\ onSelectType(answerTypeUpdate(editedScene.answerType, editedScene.answers, value))
  /\ UNCHANGED gameVars

EditorNext ==
  \/ \E menu \in VisibleQATypeMenu \ {"None"} : ShowMenu(menu)
  \/ ClickOutside
  \/ \E value \in QuestionTypeSlugs : SelectQuestionType(value)
  \/ \E value \in AnswerTypeSlugs : SelectAnswerType(value)
  \/ \E packId \in PackIds : Create(packId)
  \/ \E gameId \in GameIds, input \in Inputs, t \in Times :
       SubmitAnswerLoad(gameId, input, t)
  \/ \E c \in BagToSet(calls) : SubmitAnswerPersist(c)

EditorSpec == EditorInit /\ [][EditorNext]_vars

----------------------------------------------------------------------------
(* The auth provider (AuthProvider in src/web/src/lib/auth/useAuth.tsx,      *)
(* lines 28-107): its effect subscribes to the identity service and asks for *)
(* the stored session; every session it is handed goes through              *)
(* handleSession into the provider's state and the home store.               *)

\* the users of the identity service: one with a username in its metadata,
\* one without
AuthUsers ==
  {[id |-> "u1", user_metadata |-> [username |-> "ann"]],
   [id |-> "u3", user_metadata |-> [invited |-> TRUE]]}

AccessTokens == {"t1", "t2"}

\* the ids nanoid() can return
AnonIds == {"n1", "n2"}

Session(user, token) == [access_token |-> token, user |-> user]

Sessions == {Session(user, token) : user \in AuthUsers, token \in AccessTokens}

\* session?.user ?? null
userOf(session) == IF session = Null THEN Null ELSE session.user

\* faulty variant of storeAfter: the token of the last session is kept when the
\* session is gone
storeAfterKeepingToken(store, session, id) ==
  LET user == userOf(session)
  IN  [playerId |-> IF user # Null THEN user.id ELSE id,
       playerName |-> IF user # Null /\ "username" \in DOMAIN user.user_metadata
                      THEN user.user_metadata.username
                      ELSE "",
       accessToken |-> IF session # Null THEN session.access_token
                       ELSE store.accessToken]

\* handleSession: the home store after setPlayerId, setPlayerName and
\* setAccessToken; id is what nanoid() returns when it is called
storeAfter(store, session, id) ==
  LET user == userOf(session)
  IN  [playerId |-> IF user # Null THEN user.id ELSE id,
       playerName |-> IF user # Null /\ "username" \in DOMAIN user.user_metadata
                      THEN user.user_metadata.username
                      ELSE "",
       accessToken |-> IF session # Null THEN session.access_token ELSE ""]

\* handleSession: user, loading, and the stores
handleSession(session, provider) ==
  /\ auth' = [provider EXCEPT !.user = userOf(session), !.loading = FALSE]
  /\ \E id \in AnonIds : homeStore' = storeAfter(homeStore, session, id)
  /\ handled' = [session |-> session]

\* the browser may hold the session of an earlier visit
AuthInit ==
  /\ packs = [id \in PackIds |-> Null]
  /\ games = [g \in GameIds |-> Null]
  /\ calls = EmptyBag
  /\ reply = Null
  /\ now = 0
  /\ sceneLog = [g \in GameIds |-> Dirty]
  /\ nextScenes = [g \in GameIds |-> 0]
  /\ ncalls = 0
  /\ visibleQATypeMenu = "None"
  /\ supabase \in {[session |-> session, events |-> <<>>] :
                     session \in {Null} \cup Sessions}
  /\ auth = [user |-> Null, loading |-> TRUE, subscribed |-> FALSE,
             getSession |-> "idle", data |-> Null, response |-> "none"]
  /\ homeStore = [playerId |-> "", playerName |-> "", accessToken |-> ""]
  /\ handled = [none |-> TRUE]

serverVars == <<packs, games, calls, reply, now, sceneLog, nextScenes>>

\* the service tells its subscribers of a change of session
notify(session) ==
  [session |-> session,
   events |-> IF auth.subscribed THEN Append(supabase.events, session)
              ELSE supabase.events]

\* useEffect: onAuthStateChange subscribes the listener, getSession is called
Mount ==
  /\ ~auth.subscribed
  /\ auth' = [auth EXCEPT !.subscribed = TRUE, !.getSession = "called"]
  /\ UNCHANGED <<serverVars, ncalls, visibleQATypeMenu, supabase, homeStore, handled>>

\* getSession: the service reads the stored session
GetSessionRead ==
  /\ auth.getSession = "called"
  /\ auth' = [auth EXCEPT !.getSession = "resolved", !.data = supabase.session]
  /\ UNCHANGED <<serverVars, ncalls, visibleQATypeMenu, supabase, homeStore, handled>>

\* getSession: the await returns and data.session is handled
GetSessionHandle ==
  /\ auth.getSession = "resolved"
  /\ handleSession(auth.data, [auth EXCEPT !.getSession = "done", !.data = Null])
  /\ UNCHANGED <<serverVars, ncalls, visibleQATypeMenu, supabase>>

\* the listener is called with the next change of session: handleSession,
\* then setUser
AuthStateChange ==
  /\ supabase.events # <<>>
  /\ handleSession(Head(supabase.events), auth)
  /\ supabase' = [supabase EXCEPT !.events = Tail(@)]
  /\ UNCHANGED <<serverVars, ncalls, visibleQATypeMenu>>

\* signUp, signIn and signOut up to their await: setLoading(true), and the
\* service answers with an error or changes the session
request(session, ok) ==
  /\ ncalls < MaxCalls
  /\ auth.response = "none"
  /\ auth' = [auth EXCEPT !.loading = TRUE,
                          !.response = IF ok THEN "ok" ELSE "error"]
  /\ supabase' = IF ok THEN notify(session) ELSE supabase
  /\ ncalls' = ncalls + 1
  /\ UNCHANGED <<serverVars, visibleQATypeMenu, homeStore, handled>>

\* the forms that call them are rendered inside the provider
SignUp(user, token, ok) ==
  /\ auth.subscribed
  /\ request(Session(user, token), ok)

SignIn(user, token, ok) ==
  /\ auth.subscribed
  /\ request(Session(user, token), ok)

SignOut(ok) ==
  /\ auth.subscribed
  /\ request(Null, ok)

\* signUp, signIn and signOut after their await: handleError on an error
Respond ==
  /\ auth.response # "none"
  /\ auth' = [auth EXCEPT !.response = "none",
                          !.loading = IF auth.response = "error" THEN FALSE ELSE @]
  /\ UNCHANGED <<serverVars, ncalls, visibleQATypeMenu, supabase, homeStore, handled>>

\* the service renews the token of the session in the background
TokenRefreshed(token) ==
  /\ ncalls < MaxCalls
  /\ supabase.session # Null
  /\ supabase.session.access_token # token
  /\ supabase' = notify(Session(supabase.session.user, token))
  /\ ncalls' = ncalls + 1
  /\ UNCHANGED <<serverVars, visibleQATypeMenu, auth, homeStore, handled>>

AuthNext ==
  \/ Mount
  \/ GetSessionRead
  \/ GetSessionHandle
  \/ AuthStateChange
  \/ \E user \in AuthUsers, token \in AccessTokens, ok \in BOOLEAN : SignUp(user, token, ok)
  \/ \E user \in AuthUsers, token \in AccessTokens, ok \in BOOLEAN : SignIn(user, token, ok)
  \/ \E ok \in BOOLEAN : SignOut(ok)
  \/ Respond
  \/ \E token \in AccessTokens : TokenRefreshed(token)

AuthSpec == AuthInit /\ [][AuthNext]_vars

----------------------------------------------------------------------------
(* Properties *)

GameState(gameId) == games[gameId].state

Exists(gameId) == games[gameId] # Null

\* the number of calls in flight that equal c but for the stale mark
copies(bag, c) ==
  CopiesIn([c EXCEPT !.stale = FALSE], bag) + CopiesIn([c EXCEPT !.stale = TRUE], bag)

\* this step is the write of call c
Written(c) == BagIn(c, calls) /\ copies(calls', c) < copies(calls, c)

\* the fields of the state blob that are a copy of the active scene
SceneFields ==
  {"questionDescription", "question", "questionType", "answerType", "sceneAnswers"}

\* the two blobs agree but for the fields named
SameBut(old, new, fields) ==
  /\ DOMAIN new = DOMAIN old
  /\ \A f \in (DOMAIN old) \ fields : new[f] = old[f]

\* the JavaScript index of the last scene of a row
LastScene(game) == Len(game.gameScenes) - 1

\* C1: a nextScene call that loaded an unfinished game standing on its last
\* scene writes isFinished = true and the currentScene it loaded, which is
\* still an index of gameScenes.
C1_LastSceneFinishes ==
  [][\A c \in BagToSet(calls) :
       (/\ Written(c)
        /\ c.op = "nextScene"
        /\ ~c.game.isFinished
        /\ c.game.state.currentScene = LastScene(c.game))
       => /\ games'[c.gameId].isFinished
          /\ games'[c.gameId].state.currentScene = c.game.state.currentScene
          /\ games'[c.gameId].state.currentScene \in 0..LastScene(games'[c.gameId])]_vars

\* C1 witness: nextScene has just finished a game that stands on its last scene
C1_Witness ==
  \E g \in GameIds :
    /\ Exists(g)
    /\ games[g].isFinished
    /\ reply = Reply("nextScene", g, "ok")
    /\ GameState(g).currentScene = LastScene(games[g])

\* C2 as claimed: after a submitAnswer write currentStep is 2 exactly when the
\* number of stored submissions equals the numPlayers of the call.
C2_StepTwoIffCountEquals ==
  [][\A c \in BagToSet(calls) :
       (Written(c) /\ c.op = "submitAnswer")
       => (games'[c.gameId].state.currentStep = 2
           <=> Len(games'[c.gameId].state.submissions) = c.input.numPlayers)]_vars

\* C2 as amended: after a submitAnswer write currentStep is 2 when the number
\* of stored submissions is at least the numPlayers of the call, and 1 when
\* it is smaller.
C2_StepTwoIffCountReached ==
  [][\A c \in BagToSet(calls) :
       (Written(c) /\ c.op = "submitAnswer")
       => LET new == games'[c.gameId].state IN
          /\ Len(new.submissions) = Len(c.game.state.submissions) + 1
          /\ Len(new.submissions) >= c.input.numPlayers => new.currentStep = 2
          /\ Len(new.submissions) < c.input.numPlayers => new.currentStep = 1]_vars

\* C2 witness: both players have submitted with numPlayers = 1; the second
\* write left currentStep at 2 with two submissions
C2_Witness ==
  \E g \in GameIds :
    /\ Exists(g)
    /\ reply = Reply("submitAnswer", g, "ok")
    /\ sceneLog[g] = [dirty |-> FALSE, done |-> PlayerIds, numPlayers |-> {1},
                      serial |-> TRUE]
    /\ Len(GameState(g).submissions) = 2
    /\ GameState(g).currentStep = 2

\* the entries of a score list that belong to a player
entriesOf(scores, playerId) == {i \in DOMAIN scores : scores[i].playerId = playerId}

\* the score a submitAnswer call earns
earned(c) ==
  calculateScore(
    compareAnswer(c.input.submission.content,
                  findCorrect(c.game.state.sceneAnswers).content),
    c.game.state.startTime, c.t, c.game.state.duration)

\* C3: a submitAnswer write leaves exactly one entry for the player: with
\* the loaded score s plus the earned score d and prevScore s when the loaded
\* list had an entry, with score d and prevScore 0 when it had none; the
\* entries of the other players are the loaded ones.
C3_UpsertAccumulates ==
  [][\A c \in BagToSet(calls) :
       (Written(c) /\ c.op = "submitAnswer")
       => LET old == c.game.state.playerScores
              new == games'[c.gameId].state.playerScores
              u == c.input.submission.playerId
              d == earned(c)
          IN  /\ Cardinality(entriesOf(new, u)) = 1
              /\ \A i \in entriesOf(new, u) :
                   IF entriesOf(old, u) # {}
                   THEN \A j \in entriesOf(old, u) :
                          /\ new[i].score = old[j].score + d
                          /\ new[i].prevScore = old[j].score
                   ELSE new[i].score = d /\ new[i].prevScore = 0
              /\ Len(new) = Len(old) + (IF entriesOf(old, u) = {} THEN 1 ELSE 0)
              /\ \A j \in DOMAIN old : old[j].playerId # u => new[j] = old[j]]_vars

\* C3 witness: a player who had a positive score has scored again, next to
\* another player's entry
C3_Witness ==
  \E g \in GameIds :
    /\ Exists(g)
    /\ reply = Reply("submitAnswer", g, "ok")
    /\ Len(GameState(g).playerScores) = 2
    /\ \E i \in DOMAIN GameState(g).playerScores :
         /\ GameState(g).playerScores[i].prevScore > 0
         /\ GameState(g).playerScores[i].score > GameState(g).playerScores[i].prevScore

\* the pack a game was created from
PackOf(gameId) == packs[games[gameId].packId]

\* the row of this game is the one create has just inserted
JustCreated(gameId) == Exists(gameId) /\ reply = Reply("create", gameId, "ok")

\* C4 as claimed: a created game holds exactly pack.gameLength scenes.
C4_ExactlyGameLength ==
  \A g \in GameIds :
    JustCreated(g) => Len(games[g].gameScenes) = PackOf(g).gameLength

\* C4 as amended: a created game holds min(pack.gameLength, number of scenes
\* of the pack) scenes, each the conversion of a scene of the pack, no two
\* the same, and totalScenes is their number.
C4_SampledScenes ==
  \A g \in GameIds :
    JustCreated(g)
    => LET scenes == games[g].gameScenes IN
       /\ Len(scenes) = MinOf(PackOf(g).gameLength, Len(PackOf(g).scenes))
       /\ \A i \in DOMAIN scenes :
            \E k \in DOMAIN PackOf(g).scenes : scenes[i] = convertScene(PackOf(g).scenes[k])
       /\ \A i, j \in DOMAIN scenes : i # j => scenes[i] # scenes[j]
       /\ GameState(g).totalScenes = Len(scenes)

\* C4 witness: a game of two scenes created from a pack of two scenes whose
\* gameLength is 3
C4_Witness ==
  \E g \in GameIds :
    /\ JustCreated(g)
    /\ PackOf(g).gameLength = 3
    /\ Len(games[g].gameScenes) = 2

\* C5: the currentScene of every game that is not finished is an index of
\* its gameScenes.
C5_CurrentSceneInRange ==
  \A g \in GameIds :
    (Exists(g) /\ ~games[g].isFinished)
    => GameState(g).currentScene \in 0..LastScene(games[g])

\* C5 witness: an unfinished game that nextScene has moved to its last scene
C5_Witness ==
  \E g \in GameIds :
    /\ Exists(g)
    /\ ~games[g].isFinished
    /\ reply = Reply("nextScene", g, "ok")
    /\ GameState(g).currentScene = LastScene(games[g])

\* the procedures that start with findGameOrThrow
FindingOps == {"get", "check", "start", "nextStep", "nextScene", "submitAnswer"}

\* C6: while a game id resolves to no game or to a finished game, no call on
\* it gets past findGameOrThrow, and every get, check, start, nextStep,
\* nextScene or submitAnswer call made on it is answered "BAD_REQUEST: Game
\* not found" and leaves the game rows as they are.
C6_MissingGameRefused ==
  [][\A g \in GameIds :
       ((~Exists(g) \/ games[g].isFinished) /\ ncalls' = ncalls + 1)
       => /\ \A c \in BagToSet(calls') :
               c.gameId = g => CopiesIn(c, calls') <= CopiesIn(c, calls)
          /\ (reply'.op \in FindingOps /\ reply'.gameId = g)
             => (reply'.result = NotFound /\ games' = games)]_vars

\* C6 witness: a call on a finished game has been refused
C6_Witness ==
  \E g \in GameIds :
    /\ Exists(g)
    /\ games[g].isFinished
    /\ reply.op \in FindingOps
    /\ reply.gameId = g
    /\ reply.result = NotFound

\* the submission a submitAnswer call stores
stored(c) ==
  Spread(c.input.submission,
         [isCorrect |-> compareAnswer(c.input.submission.content,
                                      findCorrect(c.game.state.sceneAnswers).content)])

\* C7: a submitAnswer write stores the submissions and scores of the row the
\* call loaded plus its own, whatever another call has written since: the
\* last writer wins.
C7_LastWriterWins ==
  [][\A c \in BagToSet(calls) :
       (Written(c) /\ c.op = "submitAnswer")
       => /\ games'[c.gameId].state.submissions
               = Append(c.game.state.submissions, stored(c))
          /\ \A u \in PlayerIds \ {c.input.submission.playerId} :
               \A i \in entriesOf(games'[c.gameId].state.playerScores, u) :
                 \E j \in entriesOf(c.game.state.playerScores, u) :
                   games'[c.gameId].state.playerScores[i] = c.game.state.playerScores[j]]_vars

\* C7 witness (the lost update): since the scene began both players have
\* made and completed a submitAnswer call, and the stored state holds one
\* submission and one player's score
C7_LostUpdate ==
  \E g \in GameIds :
    /\ Exists(g)
    /\ ~sceneLog[g].dirty
    /\ sceneLog[g].done = PlayerIds
    /\ Len(GameState(g).submissions) = 1
    /\ Len(GameState(g).playerScores) = 1

\* since the scene began, N players have each made and completed one
\* submitAnswer call with numPlayers = N, and nothing else was called
AllSubmitted(gameId) ==
  /\ Exists(gameId)
  /\ games[gameId].isStarted
  /\ ~sceneLog[gameId].dirty
  /\ sceneLog[gameId].done # {}
  /\ sceneLog[gameId].numPlayers = {Cardinality(sceneLog[gameId].done)}

\* C8 as claimed: once all N players have submitted, currentStep is 2, under
\* every interleaving.
C8_AllSubmittedRevealsAlways ==
  \A g \in GameIds : AllSubmitted(g) => GameState(g).currentStep = 2

\* C8 as amended: once all N players have submitted in calls that did not
\* overlap, currentStep is 2.
C8_AllSubmittedReveals ==
  \A g \in GameIds :
    (AllSubmitted(g) /\ sceneLog[g].serial) => GameState(g).currentStep = 2

\* C8 witness: two players have submitted one after the other with
\* numPlayers = 2
C8_Witness ==
  \E g \in GameIds :
    /\ AllSubmitted(g)
    /\ sceneLog[g].serial
    /\ sceneLog[g].done = PlayerIds
    /\ GameState(g).currentStep = 2

\* C9: a nextScene call that loaded an unfinished game with a scene after
\* currentScene writes currentScene + 1, no submissions, the duration and
\* the time it read, and that scene's fields; the rest of the loaded state
\* but currentStep is written back, and gameScenes and isFinished are not
\* written.
C9_NextSceneAdvances ==
  [][\A c \in BagToSet(calls) :
       (/\ Written(c)
        /\ c.op = "nextScene"
        /\ ~c.game.isFinished
        /\ c.game.state.currentScene < LastScene(c.game))
       => LET old == c.game.state
              new == games'[c.gameId].state
              scene == c.game.gameScenes[old.currentScene + 2]
          IN  /\ new.currentScene = old.currentScene + 1
              /\ new.submissions = <<>>
              /\ new.duration = Duration
              /\ new.startTime = c.t
              /\ \A f \in SceneFields : new[f] = scene[f]
              /\ SameBut(old, new,
                         SceneFields \cup {"currentScene", "submissions", "duration",
                                           "startTime", "currentStep"})
              /\ new.playerScores = old.playerScores
              /\ new.totalScenes = old.totalScenes
              /\ games'[c.gameId].gameScenes = games[c.gameId].gameScenes
              /\ games'[c.gameId].isFinished = games[c.gameId].isFinished]_vars

\* C9 witness: nextScene has moved a game with scores and a later start time
\* to its second scene
C9_Witness ==
  \E g \in GameIds :
    /\ Exists(g)
    /\ ~games[g].isFinished
    /\ reply = Reply("nextScene", g, "ok")
    /\ GameState(g).currentScene = 1
    /\ GameState(g).submissions = <<>>
    /\ GameState(g).playerScores # <<>>
    /\ GameState(g).startTime > 0

\* C10: a start call that loaded an unfinished game writes currentStep 1, the
\* time it read and isStarted; the rest of the loaded state is written back,
\* and gameScenes and isFinished are not written.
C10_StartFrame ==
  [][\A c \in BagToSet(calls) :
       (Written(c) /\ c.op = "start" /\ ~c.game.isFinished)
       => LET old == c.game.state
              new == games'[c.gameId].state
          IN  /\ new.currentStep = 1
              /\ new.startTime = c.t
              /\ games'[c.gameId].isStarted
              /\ SameBut(old, new, {"currentStep", "startTime"})
              /\ games'[c.gameId].gameScenes = games[c.gameId].gameScenes
              /\ games'[c.gameId].isFinished = games[c.gameId].isFinished]_vars

\* C10 witness: start has been written over a state that held a submission
\* and a score, at a later time than the creation
C10_Witness ==
  \E g \in GameIds :
    /\ Exists(g)
    /\ games[g].isStarted
    /\ reply = Reply("start", g, "ok")
    /\ GameState(g).currentStep = 1
    /\ GameState(g).startTime > 0
    /\ GameState(g).submissions # <<>>
    /\ GameState(g).playerScores # <<>>

\* C11: a nextStep call that loaded an unfinished game writes the currentStep
\* it loaded plus one, whatever that was; the rest of the loaded state is
\* written back, and gameScenes, isStarted and isFinished are not written.
C11_NextStepFrame ==
  [][\A c \in BagToSet(calls) :
       (Written(c) /\ c.op = "nextStep" /\ ~c.game.isFinished)
       => LET old == c.game.state
              new == games'[c.gameId].state
          IN  /\ new.currentStep = old.currentStep + 1
              /\ SameBut(old, new, {"currentStep"})
              /\ games'[c.gameId].gameScenes = games[c.gameId].gameScenes
              /\ games'[c.gameId].isStarted = games[c.gameId].isStarted
              /\ games'[c.gameId].isFinished = games[c.gameId].isFinished]_vars

\* C11 witness: nextStep has been written three times over a new game, the
\* last time over the reveal step
C11_Witness ==
  \E g \in GameIds :
    /\ Exists(g)
    /\ reply = Reply("nextStep", g, "ok")
    /\ GameState(g).currentStep = 3

\* the number of answers of a list that are marked correct
numCorrect(answers) == Cardinality({i \in DOMAIN answers : answers[i].isCorrect})

Identified(session) ==
  /\ auth.user = userOf(session)
  /\ IF session = Null
     THEN /\ homeStore.playerId \in AnonIds
          /\ homeStore.playerName = ""
          /\ homeStore.accessToken = ""
     ELSE /\ homeStore.playerId = session.user.id
          /\ homeStore.playerName =
               (IF "username" \in DOMAIN session.user.user_metadata
                THEN session.user.user_metadata.username
                ELSE "")
          /\ homeStore.accessToken = session.access_token

IdentifiedAsHandled == Identified(handled.session)

\* C13: once the auth provider has handled a session, whether the result of
\* getSession or a change the listener was told of, the identity it holds is
\* that of the session handled last: the user's id, username (empty without
\* one) and token, or an anonymous id and no name or token without a
\* session; and every step that handles a session leaves loading false.
C13_IdentityMatchesSession ==
  [][/\ "session" \in DOMAIN handled' => IdentifiedAsHandled'
     /\ (GetSessionHandle \/ AuthStateChange)
        => ("session" \in DOMAIN handled' /\ ~auth'.loading)]_vars

\* C13 witness: the listener handled a sign-in before the result of
\* getSession, read before the sign-in, was handled: the identity is the
\* anonymous one of the session handled last
C13_Witness ==
  /\ handled = [session |-> Null]
  /\ auth.getSession = "done"
  /\ supabase.session # Null
  /\ supabase.events = <<>>
  /\ homeStore.playerId \in AnonIds
  /\ homeStore.accessToken = ""
  /\ ~auth.loading

Steps == {0, 1, 2}

\* C14 as claimed: the currentStep of every game is 0, 1 or 2.
C14_StepInRange ==
  \A g \in GameIds : Exists(g) => GameState(g).currentStep \in Steps

\* C14 as amended: the currentStep of a game leaves {0, 1, 2} only by the
\* write of a nextStep call that loaded the game at the reveal step or
\* later; create and every other write leave it in {0, 1, 2}.
C14_StepInRangeUntilPastReveal ==
  [][\A g \in GameIds :
       (/\ Exists(g)'
        /\ games'[g].state.currentStep \notin Steps
        /\ Exists(g) => GameState(g).currentStep \in Steps)
       => \E c \in BagToSet(calls) :
            /\ Written(c)
            /\ c.gameId = g
            /\ c.op = "nextStep"
            /\ c.game.state.currentStep >= 2]_vars

\* C14 witness: nextStep has taken a started game to the reveal step
C14_Witness ==
  \E g \in GameIds :
    /\ Exists(g)
    /\ games[g].isStarted
    /\ reply = Reply("nextStep", g, "ok")
    /\ GameState(g).currentStep = 2

\* C15 as claimed: no submitAnswer write lowers the stored currentStep, here
\* for the calls that write over the very row they loaded (nothing was
\* written between their load and their write).
C15_SubmitNeverLowersStep ==
  [][\A c \in BagToSet(calls) :
       (Written(c) /\ c.op = "submitAnswer" /\ c.game = games[c.gameId])
       => games'[c.gameId].state.currentStep >= games[c.gameId].state.currentStep]_vars

\* C16 as claimed: the state blob of a finished game never changes.
C16_FinishedStateFrozen ==
  [][\A g \in GameIds :
       (Exists(g) /\ games[g].isFinished) => games'[g].state = games[g].state]_vars

\* the calls in flight that hold a row of this game
InFlight(gameId) == {c \in BagToSet(calls) : c.gameId = gameId}

\* C16 as amended: once a game is finished and no call that loaded it
\* earlier is still in flight, its row never changes again and no call on it
\* gets past findGameOrThrow; a call in flight that loaded the game before it
\* was finished still writes its state.
C16_FinishedFrozenOnceDrained ==
  [][\A g \in GameIds :
       (Exists(g) /\ games[g].isFinished)
       => /\ games'[g].isFinished
          /\ games'[g].state # games[g].state
             => \E c \in InFlight(g) : Written(c) /\ ~c.game.isFinished
          /\ InFlight(g) = {}
             => (games'[g] = games[g] /\ InFlight(g)' = {})]_vars

\* C16 witness: a start call that loaded the game before it was finished has
\* written its state afterwards, and with no call in flight a later call was
\* refused
C16_Witness ==
  \E g \in GameIds :
    /\ Exists(g)
    /\ games[g].isFinished
    /\ games[g].isStarted
    /\ GameState(g).currentStep = 1
    /\ InFlight(g) = {}
    /\ reply.gameId = g
    /\ reply.result = NotFound

\* the scene of a game at a JavaScript index
SceneFieldsOf(gameId, i) == At(games[gameId].gameScenes, i)

\* C17: the question and answer fields of the state of every game are those
\* of gameScenes[state.currentScene].
C17_FlattenedSceneIsCurrent ==
  \A g \in GameIds :
    Exists(g)
    => /\ At(games[g].gameScenes, GameState(g).currentScene) # Null
       /\ \A f \in SceneFields :
            GameState(g)[f] = At(games[g].gameScenes, GameState(g).currentScene)[f]

\* C17 witness: a submission was stored on the second scene of a game
C17_Witness ==
  \E g \in GameIds :
    /\ Exists(g)
    /\ reply = Reply("submitAnswer", g, "ok")
    /\ GameState(g).currentScene = 1
    /\ GameState(g).submissions # <<>>
    /\ GameState(g).question = SceneFieldsOf(g, 1).question

\* C18 as claimed: no write lowers the stored currentScene.
C18_CurrentSceneNeverDecreases ==
  [][\A g \in GameIds :
       (Exists(g) /\ Exists(g)')
       => games'[g].state.currentScene >= GameState(g).currentScene]_vars

\* C18 as amended: every write stores a currentScene that is at least the
\* one the call loaded, so at least the stored one unless a nextScene write
\* came between the call's load and its write.
C18_CurrentSceneAtLeastLoaded ==
  [][\A c \in BagToSet(calls) :
       Written(c)
       => /\ games'[c.gameId].state.currentScene >= c.game.state.currentScene
          /\ c.game.state.currentScene = games[c.gameId].state.currentScene
             => games'[c.gameId].state.currentScene
                  >= games[c.gameId].state.currentScene]_vars

\* C18 witness: nextStep has been written on the second scene of a game
C18_Witness ==
  \E g \in GameIds :
    /\ Exists(g)
    /\ reply = Reply("nextStep", g, "ok")
    /\ GameState(g).currentScene = 1

C20_FinishedAfterAllScenes ==
  [][\A g \in GameIds :
       Exists(g)'
       => LET n == games'[g].state.totalScenes IN
          /\ n = Len(games'[g].gameScenes)
          /\ n >= 1
          /\ nextScenes'[g] <= n
          /\ games'[g].isFinished <=> nextScenes'[g] = n
          /\ (Exists(g) /\ nextScenes[g] = n /\ \E t \in Times : NextSceneLoad(g, t))
             => /\ reply' = Reply("nextScene", g, NotFound)
                /\ games' = games
                /\ calls' = calls]_vars

\* C20 witness: a game of two scenes was started and then finished by its
\* second nextScene call
C20_Witness ==
  \E g \in GameIds :
    /\ Exists(g)
    /\ GameState(g).totalScenes = 2
    /\ games[g].isStarted
    /\ games[g].isFinished
    /\ nextScenes[g] = 2
    /\ reply = Reply("nextScene", g, "ok")

====
